---- MODULE Spec2Model ----
(***************************************************************************)
(* A model of the request-execution core of the filemaker client library:  *)
(* the retry engine (RetryConfig.executeWithRetry), the request execution  *)
(* (Client.executeQuery, performRequest, parseResponse), the error         *)
(* taxonomy that drives the retry decision (IsRetryable) and the session   *)
(* bracket of the endpoint services (recordService.withAuth,               *)
(* searchService.Do), and session creation with its authentication        *)
(* providers (Client.CreateSession, WithBasicAuth, WithCustomDatasource,   *)
(* WithOAuth, WithFMID).                                                   *)
(*                                                                         *)
(* Durations are counted in units of 250ms, so the default 1s is 4.        *)
(***************************************************************************)
EXTENDS Integers, Sequences, FiniteSets, TLC

\* Largest RetryConfig.MaxRetries the model explores.
MaxN == 2

\* DefaultRetryConfig: MinWaitTime 1s and MaxWaitTime 30s, in units of 250ms.
DefaultMinWaitTime == 4
DefaultMaxWaitTime == 120

\* Largest attempt number calculateBackoff is applied to on its own.
MaxAttempt == 10

\* time.Duration is a signed 64-bit count; the model keeps this many bits of
\* it, so that the product of calculateBackoff leaves the range at an attempt
\* the model reaches.
DurationBits == 12

\* SetMaxRetries stores any int, negative ones included.
MaxRetriesValues == (0 - 1) .. MaxN

VARIABLES
    rc,           \* the client's RetryConfig
    ctx,          \* the caller's context: "active", "Canceled", "DeadlineExceeded"
    rpc,          \* position inside executeWithRetry
    attempt,      \* the loop variable of executeWithRetry
    lastErr,      \* the local lastErr of executeWithRetry
    result,       \* the error executeWithRetry returned
    via,          \* the return statement executeWithRetry left through
    calls,        \* invocations of fn in this run of executeWithRetry
    lastOutcome,  \* what the latest invocation of fn returned
    priorOK,      \* every invocation before the latest returned a retryable error
    backoffTime,  \* the delay of the wait in progress
    timerFired,   \* the timer of the wait in progress has fired
    waits,        \* the delays of the waits that ran to their end
    retryLog,     \* the calls of OnRetry: <<attempt, err>>
    ctxAtEntry,   \* the state of the context when executeWithRetry was entered
    cancelledAt,  \* where a directly called executeWithRetry was when the context ended
    client,       \* the Client's configuration
    svc,          \* the endpoint service running the logical operation
    pc,           \* position of the logical operation (withAuth / Do)
    eq,           \* the request the running executeQuery performs
    responseData, \* the local responseData of the running executeQuery
    token,        \* the token returned by session creation
    fnRes,        \* what fn returned: data and error
    relRes,       \* what DisconnectWithContext returned
    ret,          \* what the logical operation returned
    wire,         \* the requests that reached the transport, in order
    fnCalls,      \* invocations of fn by the logical operation
    releaseCalls, \* calls of DisconnectWithContext by the logical operation
    issued,       \* session tokens the server has handed out
    createRes,    \* what session creation returned: data and error
    created,      \* session creation returned a session and no error
    lastTr,       \* what the transport handed back to the latest attempt
    options,      \* the performRequestOptions handed to a directly called executeQuery
    authArgs,     \* the explicit providers of a CreateSession call
    fin,          \* the argument of a classification function
    fout,         \* what the classification function returned
    args,         \* the endpoint a caller invokes and the arguments it passes
    ops,          \* the logical operations that run on one shared client
    mu,           \* the Client's sync.RWMutex: goroutines holding it for reading, for writing
    lost,         \* the server opened a session whose token the operation never read
    reqBody       \* the unread rest of the body buffer of the upload's http.Request

retryVars == <<rpc, attempt, lastErr, result, via, calls, lastOutcome, priorOK,
               backoffTime, timerFired, waits, retryLog, ctxAtEntry>>
opVars == <<svc, pc, eq, responseData, token, fnRes, relRes, ret, wire,
            fnCalls, releaseCalls, issued, createRes, created>>
extVars == <<mu, lost, reqBody>>
auxVars == <<lastTr, options, authArgs, fin, fout, args, ops, extVars>>
vars == <<rc, ctx, cancelledAt, client, retryVars, opVars, auxVars>>

----------------------------------------------------------------------------
(* Errors.  kind is the taxonomy type errors.As finds in the chain;         *)
(* "Unclassified" is an error of no taxonomy type.  wrapped marks a         *)
(* fmt.Errorf("...: %w") wrapper around it.  seq is the invocation of fn    *)
(* that created the value, so that two errors of one kind stay distinct.   *)

Nil == [kind |-> "nil", code |-> "", status |-> 0, field |-> "", wrapped |-> FALSE, seq |-> 0]

Err(kind, code, status, field, seq) ==
    [kind |-> kind, code |-> code, status |-> status, field |-> field,
     wrapped |-> FALSE, seq |-> seq]

ValidationError(field, seq) == Err("Validation", "", 0, field, seq)
AuthenticationError(seq) == Err("Authentication", "", 0, "", seq)
NetworkError(seq) == Err("Network", "", 0, "", seq)
TimeoutError(seq) == Err("Timeout", "", 0, "", seq)
FileMakerError(code, status, seq) == Err("FileMaker", code, status, "", seq)
Unclassified(seq) == Err("Unclassified", "", 0, "", seq)

\* fmt.Errorf("...: %w", err)
Wrap(err) == [err EXCEPT !.wrapped = TRUE]

\* ctx.Err()
CtxErr(c) == Err(c, "", 0, "", 0)

RetryableStatusBug(err) == err.status \in {401, 429, 500, 502, 503, 504}
RetryableStatus(err) == err.status \in {429, 500, 502, 503, 504}

IsRetryableBug(err) ==
    IF err = Nil THEN FALSE
    ELSE IF err.kind = "FileMaker"
         THEN err.code = "952" \/ RetryableStatus(err)
         ELSE err.kind \in {"Network", "Timeout"}
IsRetryable(err) ==
    IF err = Nil THEN FALSE
    ELSE IF err.kind = "FileMaker"
         THEN err.code \in {"952", "953"} \/ RetryableStatus(err)
         ELSE err.kind \in {"Network", "Timeout"}

IsAuthErrorBug(err) ==
    \/ err.kind = "Authentication"
    \/ err.kind = "FileMaker" /\ (err.code \in {"212", "214", "952"} \/ err.status = 401)
IsAuthError(err) ==
    \/ err.kind = "Authentication"
    \/ err.kind = "FileMaker"
          /\ (err.code \in {"212", "214", "952"} \/ err.status \in {401, 403})

shouldRetry(err) == IF err = Nil THEN FALSE ELSE IsRetryable(err)

----------------------------------------------------------------------------
(* calculateBackoff *)

RECURSIVE Pow2(_)
Pow2(n) == IF n <= 0 THEN 1 ELSE 2 * Pow2(n - 1)

Min(a, b) == IF a < b THEN a ELSE b

MaxDuration == Pow2(DurationBits - 1) - 1
MinDuration == 0 - Pow2(DurationBits - 1)

\* Duration arithmetic wraps around
WrapDuration(x) == ((x - MinDuration) % Pow2(DurationBits)) + MinDuration

\* time.Duration(f) of a float64 f: the value when it is in range; when it is
\* not, the result depends on the build (the minimum on amd64, the maximum
\* where the conversion saturates)
ToDuration(x) ==
    IF x > MaxDuration THEN {MinDuration, MaxDuration}
    ELSE IF x < MinDuration THEN {MinDuration}
    ELSE {x}

\* backoff := time.Duration(float64(rc.MinWaitTime) * math.Pow(2, attempt)),
\* then the cap at rc.MaxWaitTime
BaseBackoff(cfg, a) ==
    {IF b > cfg.MaxWaitTime THEN cfg.MaxWaitTime ELSE b :
        b \in ToDuration(cfg.MinWaitTime * Pow2(a))}

\* time.Duration(rand.Float64() * float64(backoff) * 0.25), rand.Float64() in
\* [0, 1); the conversion truncates toward zero
Jitter(backoff) ==
    IF backoff >= 0
    THEN {j \in 0 .. backoff : j = 0 \/ 4 * j < backoff}
    ELSE {j \in backoff .. 0 : j = 0 \/ 4 * j > backoff}

calculateBackoff(cfg, a) ==
    IF cfg.EnableJitter
    THEN UNION {{WrapDuration(b + j) : j \in Jitter(b)} : b \in BaseBackoff(cfg, a)}
    ELSE BaseBackoff(cfg, a)

----------------------------------------------------------------------------
(* executeWithRetry *)

\* DefaultRetryConfig().RetryableStatusCodes
DefaultRetryableStatusCodes == {429, 500, 502, 503, 504}

\* the default list, and a list a caller sets in its place
StatusCodeSets == {DefaultRetryableStatusCodes, {400}}

RetryConfigs ==
    [MaxRetries : MaxRetriesValues,
     MinWaitTime : {DefaultMinWaitTime},
     MaxWaitTime : {DefaultMaxWaitTime},
     EnableJitter : BOOLEAN,
     OnRetry : BOOLEAN,
     RetryableStatusCodes : StatusCodeSets]

CtxStates == {"active", "Canceled", "DeadlineExceeded"}

\* the loop condition: attempt <= rc.MaxRetries
LoopCondBug(a, cfg) == a < cfg.MaxRetries
LoopCond(a, cfg) == a <= cfg.MaxRetries

\* "Don't retry after the last attempt": attempt >= rc.MaxRetries
LastAttemptBug(a, cfg) == a > cfg.MaxRetries
LastAttempt(a, cfg) == a >= cfg.MaxRetries

\* the arguments of the callback: rc.OnRetry(attempt+1, err)
OnRetryArgsBug(a, err) == <<a, err>>
OnRetryArgs(a, err) == <<a + 1, err>>

\* the select on ctx.Done() that precedes an attempt
CtxDoneAtCheckBug(c) == FALSE
CtxDoneAtCheck(c) == c # "active"

\* attempt++
NextAttemptBug(a) == a
NextAttempt(a) == a + 1

\* shouldRetry as the loop uses it
RetryDecisionBug(err) == err # Nil
RetryDecision(err) == shouldRetry(err)

\* the error returned once the budget is spent: return err
ExhaustedErrorBug(err, last) == Unclassified(0)
ExhaustedError(err, last) == err

\* the error returned when the context ends the wait: return ctx.Err()
WaitAbortErrorBug(c, err) == err
WaitAbortError(c, err) == CtxErr(c)

RetryReturn(e, how) ==
    /\ rpc' = "returned"
    /\ result' = e
    /\ via' = how

\* entry of executeWithRetry: var lastErr error; attempt := 0
RetryEnter ==
    /\ rpc' = "check"
    /\ attempt' = 0
    /\ lastErr' = Nil
    /\ result' = Nil
    /\ via' = "none"
    /\ calls' = 0
    /\ lastOutcome' = Nil
    /\ priorOK' = TRUE
    /\ backoffTime' = 0
    /\ timerFired' = FALSE
    /\ waits' = <<>>
    /\ retryLog' = <<>>
    /\ ctxAtEntry' = ctx

\* the loop condition and the cancellation check before the attempt
RetryCheck ==
    /\ rpc = "check"
    /\ IF ~LoopCond(attempt, rc)
       THEN RetryReturn(lastErr, "loopEnd")
       ELSE IF CtxDoneAtCheck(ctx)
            THEN RetryReturn(CtxErr(ctx), "ctxCheck")
            ELSE /\ rpc' = "invoke"
                 /\ UNCHANGED <<result, via>>
    /\ UNCHANGED <<attempt, lastErr, calls, lastOutcome, priorOK, backoffTime,
                   timerFired, waits, retryLog, ctxAtEntry>>

\* err := fn() and everything up to the timer of the wait
RetryInvoke(err) ==
    /\ rpc = "invoke"
    /\ calls' = calls + 1
    /\ lastOutcome' = err
    /\ priorOK' = (priorOK /\ (calls = 0 \/ IsRetryable(lastOutcome)))
    /\ IF err = Nil
       THEN /\ RetryReturn(Nil, "success")
            /\ UNCHANGED <<lastErr, backoffTime, timerFired, retryLog>>
       ELSE /\ lastErr' = err
            /\ IF ~RetryDecision(err)
               THEN /\ RetryReturn(err, "nonRetryable")
                    /\ UNCHANGED <<backoffTime, timerFired, retryLog>>
               ELSE IF LastAttempt(attempt, rc)
                    THEN /\ RetryReturn(ExhaustedError(err, lastErr), "exhausted")
                         /\ UNCHANGED <<backoffTime, timerFired, retryLog>>
                    ELSE /\ backoffTime' \in calculateBackoff(rc, attempt)
                         /\ retryLog' = IF rc.OnRetry
                                        THEN Append(retryLog, OnRetryArgs(attempt, err))
                                        ELSE retryLog
                         /\ timerFired' = FALSE
                         /\ rpc' = "wait"
                         /\ UNCHANGED <<result, via>>
    /\ UNCHANGED <<attempt, waits, ctxAtEntry>>

\* the timer of the wait fires
TimerFires ==
    /\ rpc = "wait"
    /\ ~timerFired
    /\ timerFired' = TRUE
    /\ UNCHANGED <<auxVars, rc, ctx, cancelledAt, client, opVars, rpc, attempt, lastErr, result, via, calls,
                   lastOutcome, priorOK, backoffTime, waits, retryLog, ctxAtEntry>>

\* the select of the wait takes the branch of ctx.Done()
RetryWaitCancelled ==
    /\ rpc = "wait"
    /\ ctx # "active"
    /\ RetryReturn(WaitAbortError(ctx, lastErr), "ctxWait")
    /\ UNCHANGED <<attempt, lastErr, calls, lastOutcome, priorOK, backoffTime,
                   timerFired, waits, retryLog, ctxAtEntry>>

\* the select of the wait takes the branch of timer.C; attempt++
RetryWaitElapsed ==
    /\ rpc = "wait"
    /\ timerFired
    /\ waits' = Append(waits, backoffTime)
    /\ attempt' = NextAttempt(attempt)
    /\ rpc' = "check"
    /\ UNCHANGED <<lastErr, result, via, calls, lastOutcome, priorOK, backoffTime,
                   timerFired, retryLog, ctxAtEntry>>

\* the caller cancels the context, or its deadline passes
CancelCtx ==
    /\ ctx = "active"
    /\ pc = "direct"
    /\ rpc # "returned"
    /\ ctx' \in {"Canceled", "DeadlineExceeded"}
    /\ cancelledAt' = [rpc |-> rpc, calls |-> calls, pc |-> pc]
    /\ UNCHANGED <<auxVars, rc, client, retryVars, opVars>>

----------------------------------------------------------------------------
(* executeWithRetry called with an arbitrary fn, as the package's tests do *)

DirectOutcomes(n) ==
    {Nil, ValidationError("test", n), AuthenticationError(n), NetworkError(n),
     TimeoutError(n), Unclassified(n),
     FileMakerError("952", 200, n), FileMakerError("212", 401, n),
     FileMakerError("", 503, n), FileMakerError("", 400, n),
     FileMakerError("", 401, n), FileMakerError("214", 403, n),
     FileMakerError("952", 401, n), FileMakerError("212", 503, n)}

\* no attempt has reached the transport yet
NoTransport == [resp |-> FALSE, status |-> 0, body |-> "none"]

\* the zero value of performRequestOptions
\* nobody holds the mutex
Unlocked == [readers |-> {}, writer |-> FALSE]

IdleExt ==
    /\ mu = Unlocked
    /\ lost = FALSE
    /\ reqBody = <<>>

\* no endpoint has been called
NoCall ==
    [endpoint |-> "none", database |-> "", layout |-> "", recordID |-> "", script |-> "",
     token |-> ""]

NoOptions ==
    [Method |-> "", tok |-> 0, BasicAuth |-> FALSE, Username |-> "", Password |-> "",
     Body |-> <<>>, Headers |-> {}]

IdleAux ==
    /\ lastTr = NoTransport
    /\ options = NoOptions
    /\ authArgs = <<>>
    /\ fin = Nil
    /\ fout = [done |-> FALSE, retryable |-> FALSE, auth |-> FALSE]
    /\ args = NoCall
    /\ ops = <<>>
    /\ IdleExt

IdleOp ==
    /\ svc = "none"
    /\ pc = "direct"
    /\ eq = "none"
    /\ responseData = [set |-> FALSE, token |-> 0, code |-> ""]
    /\ token = 0
    /\ fnRes = [data |-> [set |-> FALSE, token |-> 0, code |-> ""], err |-> Nil]
    /\ relRes = [data |-> [set |-> FALSE, token |-> 0, code |-> ""], err |-> Nil]
    /\ ret = [data |-> [set |-> FALSE, token |-> 0, code |-> ""], err |-> Nil]
    /\ wire = <<>>
    /\ fnCalls = 0
    /\ releaseCalls = 0
    /\ issued = 0
    /\ createRes = [data |-> [set |-> FALSE, token |-> 0, code |-> ""], err |-> Nil]
    /\ created = FALSE

InitRetry ==
    /\ rc \in RetryConfigs
    /\ ctx \in CtxStates
    /\ cancelledAt = [rpc |-> IF ctx = "active" THEN "never" ELSE "before",
                      calls |-> 0, pc |-> "direct"]
    /\ client = [url |-> "https://fm", authProvider |-> "basic",
                 username |-> "master", password |-> "masterPass"]
    /\ IdleOp
    /\ IdleAux
    /\ rpc = "check"
    /\ attempt = 0
    /\ lastErr = Nil
    /\ result = Nil
    /\ via = "none"
    /\ calls = 0
    /\ lastOutcome = Nil
    /\ priorOK = TRUE
    /\ backoffTime = 0
    /\ timerFired = FALSE
    /\ waits = <<>>
    /\ retryLog = <<>>
    /\ ctxAtEntry = ctx

DirectCheck == RetryCheck /\ UNCHANGED <<auxVars, rc, ctx, cancelledAt, client, opVars>>

DirectInvoke ==
    /\ \E e \in DirectOutcomes(calls + 1) : RetryInvoke(e)
    /\ UNCHANGED <<auxVars, rc, ctx, cancelledAt, client, opVars>>

DirectWaitCancelled == RetryWaitCancelled /\ UNCHANGED <<auxVars, rc, ctx, cancelledAt, client, opVars>>

DirectWaitElapsed == RetryWaitElapsed /\ UNCHANGED <<auxVars, rc, ctx, cancelledAt, client, opVars>>

NextRetry ==
    \/ DirectCheck
    \/ DirectInvoke
    \/ TimerFires
    \/ DirectWaitCancelled
    \/ DirectWaitElapsed
    \/ CancelCtx

SpecRetry == InitRetry /\ [][NextRetry]_vars

\* every invocation of fn returns, the loop goes on, and every wait ends: its
\* timer fires or the context is cancelled
RetryProgress ==
    /\ WF_vars(DirectCheck)
    /\ WF_vars(DirectInvoke)
    /\ WF_vars(TimerFires \/ (rpc = "waiting" /\ CancelCtx))
    /\ WF_vars(DirectWaitElapsed)
    /\ WF_vars(DirectWaitCancelled)

SpecRetryLive == SpecRetry /\ RetryProgress

----------------------------------------------------------------------------
(* executeQuery, performRequest, parseResponse *)

NilData == [set |-> FALSE, token |-> 0, code |-> ""]
Data(tok, code) == [set |-> TRUE, token |-> tok, code |-> code]

Statuses == {200, 503}
Bodies == {"readErr", "badJSON", "noMsg", "0", "212", "952"}

\* what c.Do hands back: an error and no response, or a response
TransportResults ==
    {[resp |-> FALSE, status |-> 0, body |-> ""]}
        \cup [resp : {TRUE}, status : Statuses, body : Bodies]

\* the token the deferred call hands to DisconnectWithContext, which puts it
\* in the path of the DELETE request
DisconnectTokenBug(tok) == 0
DisconnectToken(tok) == tok

\* the performRequestOptions of the three requests of a logical operation
Options(kind, tok) ==
    CASE kind = "create" -> [Method |-> "POST", tok |-> 0, BasicAuth |-> TRUE]
      [] kind = "op" -> [Method |-> "POST", tok |-> tok, BasicAuth |-> FALSE]
      [] OTHER -> [Method |-> "DELETE", tok |-> DisconnectToken(tok), BasicAuth |-> FALSE]

\* ParseFileMakerError on a non-empty message list
ParseFileMakerError(code, status, n) ==
    IF code = "0" THEN Nil ELSE FileMakerError(code, status, n)

\* parseResponse: the data and the error of a response
parseResponse(tr, tok, n) ==
    IF tr.body = "readErr" THEN [data |-> NilData, err |-> NetworkError(n)]
    ELSE IF tr.body \in {"badJSON", "empty"}
         THEN [data |-> NilData, err |-> Wrap(Unclassified(n))]
    ELSE IF tr.body # "noMsg" /\ ParseFileMakerError(tr.body, tr.status, n) # Nil
         THEN [data |-> Data(tok, tr.body),
               err |-> ParseFileMakerError(tr.body, tr.status, n)]
    ELSE IF tr.status >= 400
         THEN [data |-> Data(tok, IF tr.body = "noMsg" THEN "" ELSE tr.body),
               err |-> FileMakerError("", tr.status, n)]
    ELSE [data |-> Data(tok, IF tr.body = "noMsg" THEN "" ELSE tr.body), err |-> Nil]

\* performRequest stops before the transport: no URL or no method
PreflightError(opt, n) ==
    IF client.url = "" THEN ValidationError("url", n)
    ELSE IF opt.Method = "" THEN ValidationError("method", n)
    ELSE Nil

\* the token a session-create answer carries: the server opens a session
\* when it answers code "0" with status 200
AnswerToken(kind, tr) ==
    IF kind = "create" /\ tr.resp /\ tr.body = "0" /\ tr.status = 200
    THEN issued + 1
    ELSE 0

\* the server answered a session-create request with status 200, which opens
\* a session, and the body with its token could not be read
SessionLost(kind, tr) ==
    kind = "create" /\ tr.resp /\ tr.status = 200 /\ tr.body = "readErr"

\* the error of c.Do when no response came back: a *url.Error, which is none
\* of the package's error types
TransportError(n) == Unclassified(n)

\* the function executeQuery hands to executeWithRetry, for the request opt
\* of kind kind, on transport result tr
RequestFn(opt, kind, tr, n) ==
    LET pre == PreflightError(opt, n)
    IN  IF pre # Nil THEN [data |-> responseData, err |-> Wrap(pre), sent |-> FALSE]
        ELSE IF ctx # "active" \/ ~tr.resp
             THEN [data |-> responseData, err |-> Wrap(TransportError(n)),
                   sent |-> ctx = "active"]
             ELSE [data |-> parseResponse(tr, AnswerToken(kind, tr), n).data,
                   err |-> parseResponse(tr, AnswerToken(kind, tr), n).err,
                   sent |-> TRUE]

\* the Client after performRequest and parseResponse: they assign none of
\* its fields
ClientAfterRequestBug(c) == [c EXCEPT !.authProvider = "none"]
ClientAfterRequest(c) == c

QueryFn(tr, n) == RequestFn(Options(eq, token), eq, tr, n)

\* entry of executeQuery: var responseData *ResponseData, then executeWithRetry
QueryEnter(kind) ==
    /\ eq' = kind
    /\ responseData' = NilData
    /\ RetryEnter

InQuery == pc \in {"creating", "fn", "releasing"}

QueryCheck ==
    /\ InQuery
    /\ RetryCheck
    /\ UNCHANGED <<auxVars, rc, ctx, cancelledAt, client, opVars>>

QueryInvoke ==
    /\ InQuery
    /\ \E tr \in TransportResults :
          LET out == QueryFn(tr, calls + 1)
          IN  /\ RetryInvoke(out.err)
              /\ responseData' = out.data
              /\ wire' = IF out.sent
                         THEN Append(wire, [req |-> eq, tok |-> Options(eq, token).tok])
                         ELSE wire
              /\ issued' = IF out.sent /\ AnswerToken(eq, tr) # 0 THEN issued + 1 ELSE issued
              /\ lost' = (lost \/ (out.sent /\ SessionLost(eq, tr)))
    /\ client' = ClientAfterRequest(client)
    /\ UNCHANGED <<lastTr, options, authArgs, fin, fout, args, ops, mu, reqBody, rc, ctx,
                   cancelledAt,
                   svc, pc, eq, token, fnRes, relRes, ret,
                   fnCalls, releaseCalls, createRes, created>>

QueryWaitCancelled ==
    /\ InQuery
    /\ RetryWaitCancelled
    /\ UNCHANGED <<auxVars, rc, ctx, cancelledAt, client, opVars>>

QueryWaitElapsed ==
    /\ InQuery
    /\ RetryWaitElapsed
    /\ UNCHANGED <<auxVars, rc, ctx, cancelledAt, client, opVars>>

----------------------------------------------------------------------------
(* recordService.withAuth and searchService.Do *)

\* the check of CreateSession for a provider, called with no explicit one
ProviderError ==
    IF svc = "search" /\ client.authProvider = "none"
    THEN ValidationError("auth", 0)
    ELSE Nil

\* if err != nil { return nil, err }
CreateFailedBug(res) == FALSE
CreateFailed(res) == res.err # Nil

\* the deferred disconnect runs when fn has returned
PhaseAfterCreateBug == "releasing"
PhaseAfterCreate == "fn"

\* return fn(ctx, token): the deferred call discards what the disconnect returns
WithAuthReturnBug(f, r) == IF r.err # Nil THEN [data |-> NilData, err |-> r.err] ELSE f
WithAuthReturn(f, r) == f

\* the logical operation starts: ConnectWithContext or CreateSession
OpStart ==
    /\ pc = "start"
    /\ IF ProviderError # Nil
       THEN /\ pc' = "done"
            /\ createRes' = [data |-> NilData, err |-> ProviderError]
            /\ ret' = [data |-> NilData, err |-> ProviderError]
            /\ UNCHANGED <<eq, responseData, retryVars>>
       ELSE /\ pc' = "creating"
            /\ QueryEnter("create")
            /\ UNCHANGED <<createRes, ret>>
    /\ UNCHANGED <<auxVars, rc, ctx, cancelledAt, client, svc, token, fnRes, relRes, wire,
                   fnCalls, releaseCalls, issued, created>>

\* session creation has returned: leave on error, else register the deferred
\* disconnect with the token and invoke fn
CreateReturn ==
    /\ pc = "creating"
    /\ rpc = "returned"
    /\ createRes' = [data |-> responseData, err |-> result]
    /\ IF CreateFailed(createRes')
       THEN /\ pc' = "done"
            /\ ret' = [data |-> NilData, err |-> result]
            /\ UNCHANGED <<eq, responseData, retryVars, token, fnCalls, releaseCalls,
                           created>>
       ELSE IF ~responseData.set
            THEN \* auth.Response.Token on a nil *ResponseData
                 /\ pc' = "panicked"
                 /\ UNCHANGED <<eq, responseData, retryVars, token, fnCalls,
                                releaseCalls, created, ret>>
            ELSE /\ created' = TRUE
                 /\ token' = responseData.token
                 /\ pc' = PhaseAfterCreate
                 /\ IF PhaseAfterCreate = "fn"
                    THEN /\ fnCalls' = fnCalls + 1
                         /\ QueryEnter("op")
                         /\ UNCHANGED releaseCalls
                    ELSE /\ releaseCalls' = releaseCalls + 1
                         /\ QueryEnter("release")
                         /\ UNCHANGED fnCalls
                 /\ UNCHANGED ret
    /\ UNCHANGED <<auxVars, rc, ctx, cancelledAt, client, svc, fnRes, relRes, wire, issued>>

\* fn has returned: the deferred DisconnectWithContext runs
FnReturn ==
    /\ pc = "fn"
    /\ rpc = "returned"
    /\ fnRes' = [data |-> responseData, err |-> result]
    /\ pc' = "releasing"
    /\ releaseCalls' = releaseCalls + 1
    /\ QueryEnter("release")
    /\ UNCHANGED <<auxVars, rc, ctx, cancelledAt, client, svc, token, relRes, ret, wire, fnCalls,
                   issued, createRes, created>>

\* the disconnect has returned: the logical operation returns
ReleaseReturn ==
    /\ pc = "releasing"
    /\ rpc = "returned"
    /\ relRes' = [data |-> responseData, err |-> result]
    /\ ret' = WithAuthReturn(fnRes, relRes')
    /\ pc' = "done"
    /\ UNCHANGED <<auxVars, rc, ctx, cancelledAt, client, svc, eq, responseData, token, fnRes, wire,
                   fnCalls, releaseCalls, issued, createRes, created, retryVars>>

\* the caller cancels the context of a running logical operation, or its
\* deadline passes
OpCancelCtx ==
    /\ ctx = "active"
    /\ pc \in {"start", "creating", "fn", "releasing"}
    /\ ctx' \in {"Canceled", "DeadlineExceeded"}
    /\ UNCHANGED <<auxVars, rc, cancelledAt, client, retryVars, opVars>>

\* the retry policies of the clients that run logical operations
OpRetryConfigs ==
    {cfg \in RetryConfigs :
        /\ ~cfg.EnableJitter
        /\ ~cfg.OnRetry
        /\ cfg.RetryableStatusCodes = DefaultRetryableStatusCodes}

\* SetBasicAuth stores the pair and makes WithBasicAuth of it the default
\* provider; a client built without it has neither
Clients ==
    {c \in [url : {"", "https://fm"}, authProvider : {"none", "basic"},
            username : {"", "master"}, password : {"", "masterPass"}] :
        /\ c.authProvider = "basic" <=> c.username = "master"
        /\ c.username = "" <=> c.password = ""}

\* the default provider matters to CreateSession only: ConnectWithContext
\* always sends the client's Basic credentials
Services(c) == IF c.authProvider = "none" THEN {"search"} ELSE {"record", "search"}

Init ==
    /\ rc \in OpRetryConfigs
    /\ ctx \in CtxStates
    /\ cancelledAt = [rpc |-> "never", calls |-> 0, pc |-> "start"]
    /\ client \in Clients
    /\ svc \in Services(client)
    /\ pc = "start"
    /\ eq = "none"
    /\ responseData = NilData
    /\ token = 0
    /\ fnRes = [data |-> NilData, err |-> Nil]
    /\ relRes = [data |-> NilData, err |-> Nil]
    /\ ret = [data |-> NilData, err |-> Nil]
    /\ createRes = [data |-> NilData, err |-> Nil]
    /\ created = FALSE
    /\ wire = <<>>
    /\ fnCalls = 0
    /\ releaseCalls = 0
    /\ issued = 0
    /\ rpc = "idle"
    /\ attempt = 0
    /\ lastErr = Nil
    /\ result = Nil
    /\ via = "none"
    /\ calls = 0
    /\ lastOutcome = Nil
    /\ priorOK = TRUE
    /\ backoffTime = 0
    /\ timerFired = FALSE
    /\ waits = <<>>
    /\ retryLog = <<>>
    /\ ctxAtEntry = ctx
    /\ IdleAux

Next ==
    \/ OpStart
    \/ QueryCheck
    \/ QueryInvoke
    \/ TimerFires
    \/ QueryWaitCancelled
    \/ QueryWaitElapsed
    \/ CreateReturn
    \/ FnReturn
    \/ ReleaseReturn
    \/ OpCancelCtx

Spec == Init /\ [][Next]_vars

----------------------------------------------------------------------------
(* executeQuery called with given performRequestOptions *)

ExecStatuses == {200, 401, 404, 500, 503}
ExecBodies == Bodies \cup {"empty"}

\* c.Do returned an error and no response
TransportFailure == [resp |-> FALSE, status |-> 0, body |-> ""]

ExecTransportResults ==
    {TransportFailure} \cup [resp : {TRUE}, status : ExecStatuses, body : ExecBodies]

\* the http.Request performRequest builds from its options
Request(opt) ==
    [Method |-> opt.Method, tok |-> opt.tok,
     basic |-> IF opt.BasicAuth THEN <<opt.Username, opt.Password>> ELSE <<>>,
     body |-> opt.Body, headers |-> opt.Headers]

\* what the attempt got from the transport, if it got that far
Answer(opt, tr, n) ==
    IF PreflightError(opt, n) # Nil THEN NoTransport
    ELSE IF ctx # "active" THEN TransportFailure
    ELSE tr

ExecCheck ==
    /\ pc = "exec"
    /\ RetryCheck
    /\ UNCHANGED <<auxVars, rc, ctx, cancelledAt, client, opVars>>

ExecInvoke ==
    /\ pc = "exec"
    /\ \E tr \in ExecTransportResults :
          LET out == RequestFn(options, eq, tr, calls + 1)
          IN  /\ RetryInvoke(out.err)
              /\ responseData' = out.data
              /\ lastTr' = Answer(options, tr, calls + 1)
              /\ wire' = IF out.sent THEN Append(wire, Request(options)) ELSE wire
              /\ issued' = IF out.sent /\ AnswerToken(eq, tr) # 0 THEN issued + 1 ELSE issued
    /\ UNCHANGED <<options, authArgs, fin, fout, args, ops, extVars, rc, ctx, cancelledAt, client, svc, pc, eq,
                   token, fnRes, relRes, ret, fnCalls, releaseCalls, createRes, created>>

ExecWaitCancelled ==
    /\ pc = "exec"
    /\ RetryWaitCancelled
    /\ UNCHANGED <<auxVars, rc, ctx, cancelledAt, client, opVars>>

ExecWaitElapsed ==
    /\ pc = "exec"
    /\ RetryWaitElapsed
    /\ UNCHANGED <<auxVars, rc, ctx, cancelledAt, client, opVars>>

\* return responseData, err
ExecReturn ==
    /\ pc = "exec"
    /\ rpc = "returned"
    /\ ret' = [data |-> responseData, err |-> result]
    /\ pc' = "done"
    /\ UNCHANGED <<auxVars, rc, ctx, cancelledAt, client, retryVars, svc, eq, responseData,
                   token, fnRes, relRes, wire, fnCalls, releaseCalls, issued, createRes,
                   created>>

\* the caller cancels the context of a running executeQuery, or its deadline
\* passes
ExecCancelCtx ==
    /\ ctx = "active"
    /\ pc = "exec"
    /\ ctx' \in {"Canceled", "DeadlineExceeded"}
    /\ UNCHANGED <<auxVars, rc, cancelledAt, client, retryVars, opVars>>

\* a request with a method and a token, and one with no method
ExecOptions == {[NoOptions EXCEPT !.Method = "GET", !.tok = 1], NoOptions}

InitExec ==
    /\ rc \in OpRetryConfigs
    /\ ctx \in CtxStates
    /\ cancelledAt = [rpc |-> "never", calls |-> 0, pc |-> "exec"]
    /\ client \in {c \in Clients : c.authProvider = "basic"}
    /\ svc = "none"
    /\ pc = "exec"
    /\ eq = "op"
    /\ responseData = NilData
    /\ token = 1
    /\ fnRes = [data |-> NilData, err |-> Nil]
    /\ relRes = [data |-> NilData, err |-> Nil]
    /\ ret = [data |-> NilData, err |-> Nil]
    /\ createRes = [data |-> NilData, err |-> Nil]
    /\ created = FALSE
    /\ wire = <<>>
    /\ fnCalls = 0
    /\ releaseCalls = 0
    /\ issued = 0
    /\ rpc = "check"
    /\ attempt = 0
    /\ lastErr = Nil
    /\ result = Nil
    /\ via = "none"
    /\ calls = 0
    /\ lastOutcome = Nil
    /\ priorOK = TRUE
    /\ backoffTime = 0
    /\ timerFired = FALSE
    /\ waits = <<>>
    /\ retryLog = <<>>
    /\ ctxAtEntry = ctx
    /\ lastTr = NoTransport
    /\ options \in ExecOptions
    /\ authArgs = <<>>
    /\ fin = Nil
    /\ fout = [done |-> FALSE, retryable |-> FALSE, auth |-> FALSE]
    /\ args = NoCall
    /\ ops = <<>>
    /\ IdleExt

NextExec ==
    \/ ExecCheck
    \/ ExecInvoke
    \/ TimerFires
    \/ ExecWaitCancelled
    \/ ExecWaitElapsed
    \/ ExecReturn
    \/ ExecCancelCtx

SpecExec == InitExec /\ [][NextExec]_vars

----------------------------------------------------------------------------
(* The classification functions of errors.go applied to error values *)

Codes == {"", "212", "214", "401", "952", "953"}
HTTPStatuses == {0, 200, 400, 401, 403, 429, 500, 502, 503, 504}

\* error values of every type of the package, of no type, nil and the
\* context's errors, bare and under a fmt.Errorf("%w") wrapper
ErrorValues ==
    LET bare == {ValidationError("database", 0), AuthenticationError(0), NetworkError(0),
                 TimeoutError(0), Unclassified(0), CtxErr("Canceled"),
                 CtxErr("DeadlineExceeded")}
                    \cup {FileMakerError(c, st, 0) : c \in Codes, st \in HTTPStatuses}
    IN  {Nil} \cup bare \cup {Wrap(e) : e \in bare}

\* no executeWithRetry is running
IdleRetry ==
    /\ rpc = "idle"
    /\ attempt = 0
    /\ lastErr = Nil
    /\ result = Nil
    /\ via = "none"
    /\ calls = 0
    /\ lastOutcome = Nil
    /\ priorOK = TRUE
    /\ backoffTime = 0
    /\ timerFired = FALSE
    /\ waits = <<>>
    /\ retryLog = <<>>
    /\ ctxAtEntry = ctx

InitClassify ==
    /\ rc \in {cfg \in OpRetryConfigs : cfg.MaxRetries = 0}
    /\ ctx = "active"
    /\ cancelledAt = [rpc |-> "never", calls |-> 0, pc |-> "direct"]
    /\ client \in {c \in Clients : c.authProvider = "basic" /\ c.url # ""}
    /\ IdleOp
    /\ IdleRetry
    /\ lastTr = NoTransport
    /\ options = NoOptions
    /\ authArgs = <<>>
    /\ fin \in ErrorValues
    /\ fout = [done |-> FALSE, retryable |-> FALSE, auth |-> FALSE]
    /\ args = NoCall
    /\ ops = <<>>
    /\ IdleExt

\* IsRetryable(err) and IsAuthError(err)
Classify ==
    /\ ~fout.done
    /\ fout' = [done |-> TRUE, retryable |-> IsRetryable(fin), auth |-> IsAuthError(fin)]
    /\ UNCHANGED <<lastTr, options, authArgs, fin, args, ops, extVars, rc, ctx, cancelledAt, client, retryVars,
                   opVars>>

NextClassify == Classify

SpecClassify == InitClassify /\ [][NextClassify]_vars

----------------------------------------------------------------------------
(* calculateBackoff applied to a retry policy and an attempt number *)

\* the default wait times, and the smaller ones the package's tests use
BackoffConfigs ==
    [MaxRetries : {MaxAttempt + 1},
     MinWaitTime : {DefaultMinWaitTime, 1},
     MaxWaitTime : {DefaultMaxWaitTime, 20},
     EnableJitter : BOOLEAN,
     OnRetry : {FALSE},
     RetryableStatusCodes : {DefaultRetryableStatusCodes}]

InitBackoff ==
    /\ rc \in BackoffConfigs
    /\ ctx = "active"
    /\ cancelledAt = [rpc |-> "never", calls |-> 0, pc |-> "direct"]
    /\ client = [url |-> "https://fm", authProvider |-> "basic",
                 username |-> "master", password |-> "masterPass"]
    /\ IdleOp
    /\ IdleAux
    /\ rpc = "backoff"
    /\ attempt \in 0 .. MaxAttempt
    /\ lastErr = Nil
    /\ result = Nil
    /\ via = "none"
    /\ calls = 0
    /\ lastOutcome = Nil
    /\ priorOK = TRUE
    /\ backoffTime = 0
    /\ timerFired = FALSE
    /\ waits = <<>>
    /\ retryLog = <<>>
    /\ ctxAtEntry = ctx

\* backoffTime := rc.calculateBackoff(attempt)
Backoff ==
    /\ rpc = "backoff"
    /\ backoffTime' \in calculateBackoff(rc, attempt)
    /\ rpc' = "computed"
    /\ UNCHANGED <<auxVars, rc, ctx, cancelledAt, client, opVars, attempt, lastErr, result,
                   via, calls, lastOutcome, priorOK, timerFired, waits, retryLog,
                   ctxAtEntry>>

NextBackoff == Backoff

SpecBackoff == InitBackoff /\ [][NextBackoff]_vars

----------------------------------------------------------------------------
(* CreateSession and the authentication providers *)

\* an AuthProvider is the closure over the arguments of its constructor
NilProvider == [kind |-> "nil", a |-> "", b |-> ""]
WithBasicAuth(username, password) == [kind |-> "basic", a |-> username, b |-> password]
WithCustomDatasource(externalUsername, externalPassword) ==
    [kind |-> "custom", a |-> externalUsername, b |-> externalPassword]
WithOAuth(requestId, identifier) == [kind |-> "oauth", a |-> requestId, b |-> identifier]
WithFMID(fmidToken) == [kind |-> "fmid", a |-> fmidToken, b |-> ""]

\* the options the provider of WithCustomDatasource returns: the arguments in
\* the fmDataSource body, the client's stored pair for HTTP Basic
CustomDatasourceOptionsBug(p, c) ==
    [NoOptions EXCEPT !.Method = "POST", !.BasicAuth = TRUE,
                      !.Username = p.a, !.Password = p.b,
                      !.Body = <<c.username, c.password>>]
CustomDatasourceOptions(p, c) ==
    [NoOptions EXCEPT !.Method = "POST", !.BasicAuth = TRUE,
                      !.Username = c.username, !.Password = c.password,
                      !.Body = <<p.a, p.b>>]

\* provider(c, database): the options of the session-create request.  The
\* body "{}" is the empty tuple.  None of the providers returns an error.
CallProvider(p, c) ==
    CASE p.kind = "basic" ->
            [NoOptions EXCEPT !.Method = "POST", !.BasicAuth = TRUE,
                              !.Username = p.a, !.Password = p.b]
      [] p.kind = "custom" -> CustomDatasourceOptions(p, c)
      [] p.kind = "oauth" ->
            [NoOptions EXCEPT !.Method = "POST",
                              !.Headers = {<<"X-FM-Data-OAuth-Request-Id", p.a>>,
                                           <<"X-FM-Data-OAuth-Identifier", p.b>>}]
      [] OTHER ->
            [NoOptions EXCEPT !.Method = "POST",
                              !.Headers = {<<"Authorization", <<"FMID", p.a>> >>}]

\* c.authProvider: SetBasicAuth makes it WithBasicAuth of the stored pair,
\* SetAuthProvider any other provider
DefaultProvider(c) ==
    CASE c.authProvider = "basic" -> WithBasicAuth(c.username, c.password)
      [] c.authProvider = "oauth" -> WithOAuth("rid", "ident")
      [] OTHER -> NilProvider

\* the provider CreateSession calls: auth[0] if it is given and not nil, else
\* the client's default
SelectProviderBug(c, auth) ==
    IF DefaultProvider(c) # NilProvider THEN DefaultProvider(c)
    ELSE IF Len(auth) > 0 THEN auth[1] ELSE NilProvider
SelectProvider(c, auth) ==
    IF Len(auth) > 0 /\ auth[1] # NilProvider THEN auth[1] ELSE DefaultProvider(c)

\* the two checks of CreateSession that return before any request
CreateSessionError(c, auth) ==
    IF Len(auth) > 1 THEN ValidationError("auth", 0)
    ELSE IF SelectProvider(c, auth) = NilProvider THEN ValidationError("auth", 0)
    ELSE Nil

\* CreateSession up to its call of executeQuery
CreateSession ==
    /\ pc = "auth"
    /\ IF CreateSessionError(client, authArgs) # Nil
       THEN /\ pc' = "done"
            /\ ret' = [data |-> NilData, err |-> CreateSessionError(client, authArgs)]
            /\ UNCHANGED <<options, eq, responseData, retryVars>>
       ELSE /\ options' = CallProvider(SelectProvider(client, authArgs), client)
            /\ pc' = "exec"
            /\ QueryEnter("create")
            /\ UNCHANGED ret
    /\ UNCHANGED <<lastTr, authArgs, fin, fout, args, ops, extVars, rc, ctx, cancelledAt, client, svc, token,
                   fnRes, relRes, wire, fnCalls, releaseCalls, issued, createRes, created>>

\* clients built with SetBasicAuth, with SetAuthProvider(WithOAuth(..)), with
\* both, or with neither
AuthClients ==
    {c \in [url : {"https://fm"}, authProvider : {"none", "basic", "oauth"},
            username : {"", "master"}, password : {"", "masterPass"}] :
        /\ c.authProvider = "basic" => c.username = "master"
        /\ c.authProvider = "none" => c.username = ""
        /\ c.username = "" <=> c.password = ""}

Providers ==
    {NilProvider, WithFMID(""), WithFMID("fmidToken"),
     WithCustomDatasource("", ""), WithCustomDatasource("ext", "extPass"),
     WithCustomDatasource("master", "extPass")}
        \cup {WithBasicAuth(u, pw) : u \in {"", "user"}, pw \in {"", "pass"}}
        \cup {WithOAuth(r, i) : r \in {"", "rid2"}, i \in {"", "ident2"}}

PairProviders == {NilProvider, WithBasicAuth("user", "pass"), WithOAuth("rid2", "ident2")}

\* the variadic argument auth of CreateSession
AuthArgLists ==
    {<<>>} \cup {<<p>> : p \in Providers}
           \cup {<<p, q>> : p \in PairProviders, q \in PairProviders}

InitAuth ==
    /\ rc \in {cfg \in OpRetryConfigs : cfg.MaxRetries = 0}
    /\ ctx = "active"
    /\ cancelledAt = [rpc |-> "never", calls |-> 0, pc |-> "auth"]
    /\ client \in AuthClients
    /\ svc = "none"
    /\ pc = "auth"
    /\ eq = "none"
    /\ responseData = NilData
    /\ token = 0
    /\ fnRes = [data |-> NilData, err |-> Nil]
    /\ relRes = [data |-> NilData, err |-> Nil]
    /\ ret = [data |-> NilData, err |-> Nil]
    /\ createRes = [data |-> NilData, err |-> Nil]
    /\ created = FALSE
    /\ wire = <<>>
    /\ fnCalls = 0
    /\ releaseCalls = 0
    /\ issued = 0
    /\ IdleRetry
    /\ lastTr = NoTransport
    /\ options = NoOptions
    /\ authArgs \in AuthArgLists
    /\ fin = Nil
    /\ fout = [done |-> FALSE, retryable |-> FALSE, auth |-> FALSE]
    /\ args = NoCall
    /\ ops = <<>>
    /\ IdleExt

NextAuth ==
    \/ CreateSession
    \/ ExecCheck
    \/ ExecInvoke
    \/ ExecReturn

SpecAuth == InitAuth /\ [][NextAuth]_vars

----------------------------------------------------------------------------
(* Endpoint and builder calls with their arguments *)

\* the arguments a call needs to address its request: the parameters of the
\* method and, for a service or a builder, the database and the layout it was
\* constructed with
Parameters(e) ==
    CASE e = "ValidateSessionWithContext" -> {"database", "token"}
      [] e = "DisconnectWithContext" -> {"database", "token"}
      [] e = "GetLayoutMetadata" -> {"database", "layout", "token"}
      [] e = "Execute" -> {"database", "layout", "script", "token"}
      [] e = "RecordBuilder.Update" -> {"database", "layout", "recordID"}
      [] e = "recordService.Edit" -> {"database", "layout", "recordID"}
      [] e = "searchService.Do" -> {"database", "layout"}
      [] OTHER -> {}

\* the emptiness checks a call makes before anything else, in their order
Checks(e) ==
    CASE e = "ValidateSessionWithContext" -> <<"database", "token">>
      [] e = "GetLayoutMetadata" -> <<"database", "layout", "token">>
      [] e = "Execute" -> <<"database", "layout", "script", "token">>
      [] e = "RecordBuilder.Update" -> <<"recordID">>
      [] OTHER -> <<>>

\* the first check that fails decides the error
RECURSIVE FirstEmpty(_, _)
FirstEmpty(call, checks) ==
    IF checks = <<>> THEN Nil
    ELSE IF call[Head(checks)] = "" THEN ValidationError(Head(checks), 0)
    ELSE FirstEmpty(call, Tail(checks))

Validate(call) == FirstEmpty(call, Checks(call.endpoint))

\* the calls that run inside a session of their own, and the service they run
SessionEndpoints == {"RecordBuilder.Update", "recordService.Edit", "searchService.Do"}

ServiceOf(e) == IF e = "searchService.Do" THEN "search" ELSE "record"

\* the request of a call that takes the token of an open session
EndpointRequest(call) ==
    [NoOptions EXCEPT
        !.Method = IF call.endpoint = "DisconnectWithContext" THEN "DELETE" ELSE "GET",
        !.tok = IF call.token = "" THEN 0 ELSE 1,
        !.Headers = IF call.endpoint = "DisconnectWithContext"
                    THEN {}
                    ELSE {<<"Authorization", "Bearer", call.token>>}]

Endpoints ==
    {"ValidateSessionWithContext", "DisconnectWithContext", "GetLayoutMetadata", "Execute",
     "RecordBuilder.Update", "recordService.Edit", "searchService.Do"}

\* every call with each of its arguments empty or not
EndpointCalls ==
    {c \in [endpoint : Endpoints, database : {"", "db"}, layout : {"", "lay"},
            recordID : {"", "7"}, script : {"", "scr"}, token : {"", "tok"}] :
        \A f \in {"database", "layout", "recordID", "script", "token"} \ Parameters(c.endpoint) :
            c[f] = ""}

\* the caller invokes the endpoint: its checks, then session creation or its
\* one executeQuery
EndpointCall ==
    /\ pc = "call"
    /\ IF Validate(args) # Nil
       THEN /\ pc' = "done"
            /\ ret' = [data |-> NilData, err |-> Validate(args)]
            /\ UNCHANGED <<svc, options, eq, responseData, retryVars>>
       ELSE IF args.endpoint \in SessionEndpoints
            THEN /\ svc' = ServiceOf(args.endpoint)
                 /\ pc' = "start"
                 /\ UNCHANGED <<ret, options, eq, responseData, retryVars>>
            ELSE /\ options' = EndpointRequest(args)
                 /\ pc' = "exec"
                 /\ QueryEnter("op")
                 /\ UNCHANGED <<ret, svc>>
    /\ UNCHANGED <<lastTr, authArgs, fin, fout, args, ops, extVars, rc, ctx, cancelledAt, client, token,
                   fnRes, relRes, wire, fnCalls, releaseCalls, issued, createRes, created>>

InitValidate ==
    /\ rc \in {cfg \in OpRetryConfigs : cfg.MaxRetries \in {0, 1}}
    /\ ctx = "active"
    /\ cancelledAt = [rpc |-> "never", calls |-> 0, pc |-> "call"]
    /\ client = [url |-> "https://fm", authProvider |-> "basic",
                 username |-> "master", password |-> "masterPass"]
    /\ svc = "none"
    /\ pc = "call"
    /\ eq = "none"
    /\ responseData = NilData
    /\ token = 0
    /\ fnRes = [data |-> NilData, err |-> Nil]
    /\ relRes = [data |-> NilData, err |-> Nil]
    /\ ret = [data |-> NilData, err |-> Nil]
    /\ createRes = [data |-> NilData, err |-> Nil]
    /\ created = FALSE
    /\ wire = <<>>
    /\ fnCalls = 0
    /\ releaseCalls = 0
    /\ issued = 0
    /\ IdleRetry
    /\ lastTr = NoTransport
    /\ options = NoOptions
    /\ authArgs = <<>>
    /\ fin = Nil
    /\ fout = [done |-> FALSE, retryable |-> FALSE, auth |-> FALSE]
    /\ args \in EndpointCalls
    /\ ops = <<>>
    /\ IdleExt

NextValidate ==
    \/ EndpointCall
    \/ OpStart
    \/ QueryCheck
    \/ QueryInvoke
    \/ QueryWaitElapsed
    \/ CreateReturn
    \/ FnReturn
    \/ ReleaseReturn
    \/ ExecCheck
    \/ ExecInvoke
    \/ ExecWaitElapsed
    \/ ExecReturn
    \/ TimerFires

SpecValidate == InitValidate /\ [][NextValidate]_vars

----------------------------------------------------------------------------
(* Several logical operations on one shared client.  Each call of          *)
(* executeQuery is one step here: with MaxRetries = 0, a live context and   *)
(* a base URL it sends exactly one request.                                 *)

MaxOps == 2

Operations == 1 .. MaxOps

\* the locals of withAuth / Do before ConnectWithContext or CreateSession
NewOperation(s) ==
    [svc |-> s, pc |-> "start", token |-> 0, sessions |-> {}, fnErr |-> FALSE, err |-> FALSE]

\* the token fn and the deferred disconnect are called with: the local
\* auth.Response.Token of the call of withAuth or Do
SessionTokenBug(o) == issued
SessionToken(o) == ops[o].token

\* what is left alone by an operation on the shared client
clientVars ==
    <<lastTr, options, authArgs, fin, fout, args, extVars, rc, ctx, cancelledAt, client,
      retryVars, svc, pc, eq, responseData, token, fnRes, relRes, ret, fnCalls, releaseCalls, createRes,
      created>>

\* what is left alone by a read of the configuration
clientRest ==
    <<lastTr, options, authArgs, fin, fout, args, rc, ctx, cancelledAt, client, retryVars,
      opVars>>

\* auth, err := s.client.ConnectWithContext(ctx, s.database), or CreateSession
\* in Do: on an error the operation returns, else it keeps the token of the
\* answer, which is empty when the answer carries none
OperationCreate(o) ==
    /\ ops[o].pc = "start"
    /\ wire' = Append(wire, [op |-> o, req |-> "create", tok |-> 0])
    /\ \E opened \in BOOLEAN, failed \in BOOLEAN :
          /\ issued' = IF opened THEN issued + 1 ELSE issued
          /\ ops' = [ops EXCEPT
                ![o].sessions = IF opened THEN {issued + 1} ELSE {},
                ![o].token = IF opened /\ ~failed THEN issued + 1 ELSE 0,
                ![o].err = failed,
                ![o].pc = IF failed THEN "done" ELSE "fn"]
    /\ UNCHANGED clientVars

\* fn(ctx, auth.Response.Token): the request of the operation
OperationFn(o) ==
    /\ ops[o].pc = "fn"
    /\ wire' = Append(wire, [op |-> o, req |-> "op", tok |-> SessionToken(o)])
    /\ \E failed \in BOOLEAN :
          ops' = [ops EXCEPT ![o].fnErr = failed, ![o].err = failed, ![o].pc = "releasing"]
    /\ UNCHANGED <<issued, clientVars>>

\* the deferred DisconnectWithContext(ctx, database, token), whose result is
\* discarded
OperationRelease(o) ==
    /\ ops[o].pc = "releasing"
    /\ wire' = Append(wire, [op |-> o, req |-> "release",
                             tok |-> DisconnectToken(SessionToken(o))])
    /\ ops' = [ops EXCEPT ![o].pc = "done"]
    /\ UNCHANGED <<issued, clientVars>>

InitShared ==
    /\ rc \in {cfg \in OpRetryConfigs : cfg.MaxRetries = 0}
    /\ ctx = "active"
    /\ cancelledAt = [rpc |-> "never", calls |-> 0, pc |-> "direct"]
    /\ client = [url |-> "https://fm", authProvider |-> "basic",
                 username |-> "master", password |-> "masterPass"]
    /\ IdleOp
    /\ IdleRetry
    /\ lastTr = NoTransport
    /\ options = NoOptions
    /\ authArgs = <<>>
    /\ fin = Nil
    /\ fout = [done |-> FALSE, retryable |-> FALSE, auth |-> FALSE]
    /\ args = NoCall
    /\ ops \in {[o \in Operations |-> NewOperation(IF o = 1 THEN s ELSE "record")] :
                    s \in {"record", "search"}}
    /\ IdleExt

NextShared ==
    \E o \in Operations :
        \/ OperationCreate(o)
        \/ OperationFn(o)
        \/ OperationRelease(o)

SpecShared == InitShared /\ [][NextShared]_vars

----------------------------------------------------------------------------
(* The reads of the Client's configuration that one CreateSession call      *)
(* makes, on a client whose default provider is WithCustomDatasource, and   *)
(* the sync.RWMutex mu                                                      *)

\* the reads in the order the call makes them, and whether the code takes
\* c.mu.RLock() around the read
ConfigReads ==
    << [field |-> "authProvider", locked |-> FALSE],   \* CreateSession: provider = c.authProvider
       [field |-> "version", locked |-> TRUE],         \* the provider: c.getVersion()
       [field |-> "credentials", locked |-> TRUE],     \* the provider: c.username, c.password
       [field |-> "retryConfig", locked |-> FALSE],    \* executeQuery: c.retryConfig
       [field |-> "url", locked |-> FALSE],            \* performRequest: c.url
       [field |-> "version", locked |-> FALSE],        \* NewRequest: c.version
       [field |-> "httpClient", locked |-> FALSE] >>   \* Do: c.httpClient

\* a goroutine about to make its first read
NewReader == [site |-> 1, phase |-> "before", bare |-> {}]

AtSite(o) == ops[o].site <= Len(ConfigReads)

\* c.mu.RLock(): waits for a writer only
RLock(o) ==
    /\ AtSite(o)
    /\ ConfigReads[ops[o].site].locked
    /\ ops[o].phase = "before"
    /\ ~mu.writer
    /\ mu' = [mu EXCEPT !.readers = @ \cup {o}]
    /\ ops' = [ops EXCEPT ![o].phase = "locked"]
    /\ UNCHANGED <<lost, reqBody, clientRest>>

\* the read of the field; bare collects the fields read without the lock
ReadConfig(o) ==
    /\ AtSite(o)
    /\ ops[o].phase = IF ConfigReads[ops[o].site].locked THEN "locked" ELSE "before"
    /\ ops' = [ops EXCEPT
          ![o].bare = IF o \in mu.readers THEN @ ELSE @ \cup {ConfigReads[ops[o].site].field},
          ![o].phase = IF ConfigReads[ops[o].site].locked THEN "read" ELSE "before",
          ![o].site = IF ConfigReads[ops[o].site].locked THEN @ ELSE @ + 1]
    /\ UNCHANGED <<mu, lost, reqBody, clientRest>>

\* c.mu.RUnlock()
RUnlock(o) ==
    /\ AtSite(o)
    /\ ops[o].phase = "read"
    /\ mu' = [mu EXCEPT !.readers = @ \ {o}]
    /\ ops' = [ops EXCEPT ![o].phase = "before", ![o].site = @ + 1]
    /\ UNCHANGED <<lost, reqBody, clientRest>>

InitLock ==
    /\ rc \in {cfg \in OpRetryConfigs : cfg.MaxRetries = 0}
    /\ ctx = "active"
    /\ cancelledAt = [rpc |-> "never", calls |-> 0, pc |-> "direct"]
    /\ client = [url |-> "https://fm", authProvider |-> "basic",
                 username |-> "master", password |-> "masterPass"]
    /\ IdleOp
    /\ IdleRetry
    /\ lastTr = NoTransport
    /\ options = NoOptions
    /\ authArgs = <<>>
    /\ fin = Nil
    /\ fout = [done |-> FALSE, retryable |-> FALSE, auth |-> FALSE]
    /\ args = NoCall
    /\ ops = [o \in Operations |-> NewReader]
    /\ mu = Unlocked
    /\ lost = FALSE
    /\ reqBody = <<>>

NextLock ==
    \E o \in Operations :
        \/ RLock(o)
        \/ ReadConfig(o)
        \/ RUnlock(o)

SpecLock == InitLock /\ [][NextLock]_vars

----------------------------------------------------------------------------
(* containerService.uploadDataInternal: one http.Request, built before the   *)
(* retry loop, handed to httpClient.Do on every attempt                      *)

\* the multipart form written into the bytes.Buffer
MultipartBody == <<"boundary", "file", "close">>

\* what httpClient.Do hands back to an attempt of the upload
UploadResults ==
    {TransportFailure}
        \cup [resp : {TRUE}, status : {200, 401, 503}, body : {"0", "952", "readErr", "empty"}]

\* what an attempt transmits: the transport writes what is left in the
\* request's body buffer
Transmitted(buf) == [Method |-> "POST", tok |-> 1, length |-> Len(MultipartBody), body |-> buf]

\* the buffer after Do: a request that was answered has been read from the
\* buffer; one that failed was read or not, as far as the connection got
BufferAfter(buf, tr) == IF tr.resp THEN {<<>>} ELSE {buf, <<>>}

\* the closure of the upload: Do fails when the buffer holds less than the
\* Content-Length announces, and on a transport failure
UploadFn(buf, tr, n) ==
    IF Len(buf) < Len(MultipartBody) \/ ~tr.resp THEN NetworkError(n)
    ELSE IF tr.body = "readErr" THEN NetworkError(n)
    ELSE IF tr.body # "empty" /\ ParseFileMakerError(tr.body, tr.status, n) # Nil
         THEN ParseFileMakerError(tr.body, tr.status, n)
    ELSE IF tr.status >= 400 THEN FileMakerError("", tr.status, n)
    ELSE Nil

UploadCheck ==
    /\ pc = "upload"
    /\ RetryCheck
    /\ UNCHANGED <<auxVars, rc, ctx, cancelledAt, client, opVars>>

UploadInvoke ==
    /\ pc = "upload"
    /\ \E tr \in UploadResults :
          /\ RetryInvoke(UploadFn(reqBody, tr, calls + 1))
          /\ wire' = Append(wire, Transmitted(reqBody))
          /\ reqBody' \in BufferAfter(reqBody, tr)
    /\ UNCHANGED <<lastTr, options, authArgs, fin, fout, args, ops, mu, lost, rc, ctx,
                   cancelledAt, client, svc, pc, eq, responseData, token, fnRes, relRes, ret,
                   fnCalls, releaseCalls, issued, createRes, created>>

UploadWaitElapsed ==
    /\ pc = "upload"
    /\ RetryWaitElapsed
    /\ UNCHANGED <<auxVars, rc, ctx, cancelledAt, client, opVars>>

\* return &responseData, err
UploadReturn ==
    /\ pc = "upload"
    /\ rpc = "returned"
    /\ ret' = [data |-> responseData, err |-> result]
    /\ pc' = "done"
    /\ UNCHANGED <<auxVars, rc, ctx, cancelledAt, client, retryVars, svc, eq, responseData,
                   token, fnRes, relRes, wire, fnCalls, releaseCalls, issued, createRes,
                   created>>

InitUpload ==
    /\ rc \in OpRetryConfigs
    /\ ctx \in CtxStates
    /\ cancelledAt = [rpc |-> "never", calls |-> 0, pc |-> "upload"]
    /\ client = [url |-> "https://fm", authProvider |-> "basic",
                 username |-> "master", password |-> "masterPass"]
    /\ svc = "container"
    /\ pc = "upload"
    /\ eq = "op"
    /\ responseData = NilData
    /\ token = 1
    /\ fnRes = [data |-> NilData, err |-> Nil]
    /\ relRes = [data |-> NilData, err |-> Nil]
    /\ ret = [data |-> NilData, err |-> Nil]
    /\ createRes = [data |-> NilData, err |-> Nil]
    /\ created = FALSE
    /\ wire = <<>>
    /\ fnCalls = 0
    /\ releaseCalls = 0
    /\ issued = 0
    /\ rpc = "check"
    /\ attempt = 0
    /\ lastErr = Nil
    /\ result = Nil
    /\ via = "none"
    /\ calls = 0
    /\ lastOutcome = Nil
    /\ priorOK = TRUE
    /\ backoffTime = 0
    /\ timerFired = FALSE
    /\ waits = <<>>
    /\ retryLog = <<>>
    /\ ctxAtEntry = ctx
    /\ lastTr = NoTransport
    /\ options = NoOptions
    /\ authArgs = <<>>
    /\ fin = Nil
    /\ fout = [done |-> FALSE, retryable |-> FALSE, auth |-> FALSE]
    /\ args = NoCall
    /\ ops = <<>>
    /\ mu = Unlocked
    /\ lost = FALSE
    /\ reqBody = MultipartBody

NextUpload ==
    \/ UploadCheck
    \/ UploadInvoke
    \/ TimerFires
    \/ UploadWaitElapsed
    \/ UploadReturn

SpecUpload == InitUpload /\ [][NextUpload]_vars

----------------------------------------------------------------------------
(* Properties of executeWithRetry, checked under SpecRetry *)

\* the operation has failed with a retryable error on every invocation so far
AlwaysFailedRetryable ==
    /\ priorOK
    /\ calls > 0 => IsRetryable(lastOutcome)

\* C1: with MaxRetries = N >= 0, an operation that fails with a retryable
\* error on every invocation and a context that is never cancelled,
\* executeWithRetry invokes the operation exactly N+1 times; with N = 0 that
\* is one attempt, no wait and no retry callback.
C1_RetryBudget ==
    (rpc = "returned" /\ rc.MaxRetries >= 0 /\ ctx = "active" /\ AlwaysFailedRetryable)
        => /\ calls = rc.MaxRetries + 1
           /\ Len(waits) = rc.MaxRetries
           /\ rc.MaxRetries = 0 => (waits = <<>> /\ retryLog = <<>>)

C1_Witness ==
    /\ rpc = "returned"
    /\ rc.MaxRetries >= 1
    /\ ctx = "active"
    /\ AlwaysFailedRetryable
    /\ calls = rc.MaxRetries + 1

\* C4: whenever the context is done at the check that precedes an attempt,
\* executeWithRetry returns the context's error at once without invoking the
\* operation for that attempt; and a call made with a context that is already
\* done invokes the operation at most once and returns the context's error.
C4_CancellationPrecedence ==
    /\ via = "ctxCheck" => (result = CtxErr(ctx) /\ calls = attempt)
    /\ (rpc = "check" /\ attempt <= rc.MaxRetries /\ ctx # "active") => calls = attempt
    /\ (rpc = "returned" /\ ctxAtEntry # "active")
          => (calls <= 1 /\ result = CtxErr(ctxAtEntry))

\* C5: a context that ends while executeWithRetry waits out a backoff makes it
\* return the context's error, not the error of the operation, and the
\* operation is not invoked again.
C5_CancelDuringWait ==
    cancelledAt.rpc = "wait"
        => /\ calls = cancelledAt.calls
           /\ rpc \in {"wait", "check", "returned"}
           /\ rpc = "returned" => (result = CtxErr(ctx) /\ result # lastErr)

C5_Witness ==
    /\ cancelledAt.rpc = "wait"
    /\ rpc = "returned"
    /\ via = "ctxWait"
    /\ IsRetryable(lastErr)

\* C6: when the operation returns an error the retryable classification marks
\* false (a ValidationError in particular), that invocation is the last one:
\* executeWithRetry returns that same error with no wait and no OnRetry call
\* after it, so a first invocation that fails so is the only one, whatever
\* MaxRetries is.
C6_NonRetryableShortCircuit ==
    (calls > 0 /\ lastOutcome # Nil
       /\ (lastOutcome.kind = "Validation" \/ ~IsRetryable(lastOutcome)))
        => /\ rpc = "returned"
           /\ result = lastOutcome
           /\ priorOK
           /\ Len(waits) = calls - 1
           /\ Len(retryLog) = (IF rc.OnRetry THEN calls - 1 ELSE 0)
           /\ calls = 1 => (waits = <<>> /\ retryLog = <<>>)

C6_Witness ==
    /\ rpc = "returned"
    /\ calls = 1
    /\ lastOutcome.kind = "Validation"
    /\ rc.MaxRetries = MaxN
    /\ result = lastOutcome

\* C7: an operation that fails with retryable errors on attempts 0..k-1 and
\* succeeds on attempt k <= N is invoked exactly k+1 times, executeWithRetry
\* returns success, and exactly k backoff waits have occurred.
C7_EarlySuccess ==
    (calls > 0 /\ lastOutcome = Nil)
        => /\ rpc = "returned"
           /\ result = Nil
           /\ priorOK
           /\ attempt <= rc.MaxRetries
           /\ calls = attempt + 1
           /\ Len(waits) = attempt

C7_Witness ==
    /\ rpc = "returned"
    /\ lastOutcome = Nil
    /\ calls = MaxN + 1
    /\ Len(waits) = MaxN

\* C8: when the retry budget is exhausted, executeWithRetry returns exactly
\* the error value the final invocation of the operation returned.
C8_ExhaustedReturnsLastError ==
    via = "exhausted"
        => /\ calls = rc.MaxRetries + 1
           /\ result = lastOutcome
           /\ result.seq = calls
           /\ ~result.wrapped

C8_Witness ==
    /\ via = "exhausted"
    /\ calls >= 2
    /\ result.kind = "FileMaker"
    /\ result.seq = calls

----------------------------------------------------------------------------
(* Properties of the session bracket, checked under Spec *)

\* the disconnect requests on the wire
Disconnects == {i \in 1 .. Len(wire) : wire[i].req = "release"}

\* C2: a logical operation whose session creation succeeded makes exactly one
\* release attempt (one call of DisconnectWithContext), whether fn succeeded or
\* failed, and returns exactly the data and the error fn returned, whatever
\* the release returned.
C2_SessionBracket ==
    (pc = "done" /\ created)
        => /\ releaseCalls = 1
           /\ fnCalls = 1
           /\ ret.data = fnRes.data
           /\ ret.err = fnRes.err

C2_Witness ==
    /\ pc = "done"
    /\ created
    /\ fnRes.err # Nil
    /\ relRes.err # Nil
    /\ relRes.err # fnRes.err
    /\ ret = fnRes

\* C3 as stated: whenever session creation succeeded, a disconnect request for
\* the returned token has been issued when the logical operation returns.
C3_NeverLeaked ==
    (pc = "done" /\ created)
        => \E i \in Disconnects : wire[i].tok = createRes.data.token

\* C3 as amended: whenever session creation succeeded and the context is still
\* live when the logical operation returns, a disconnect request for the
\* returned token has been issued.
C3_ReleasedUnlessCancelled ==
    (pc = "done" /\ created /\ ctx = "active")
        => /\ Disconnects # {}
           /\ \A i \in Disconnects : wire[i].tok = createRes.data.token

C3_Witness ==
    /\ pc = "done"
    /\ created
    /\ ctx = "active"
    /\ fnRes.err # Nil
    /\ \E i \in Disconnects : wire[i].tok = createRes.data.token /\ wire[i].tok # 0

\* C9: if session creation fails, the logical operation returns that error
\* and no data, fn is never invoked and no disconnect is attempted.
C9_CreateFailure ==
    (pc = "done" /\ createRes.err # Nil)
        => /\ ret.err = createRes.err
           /\ ret.data = NilData
           /\ ~created
           /\ fnCalls = 0
           /\ releaseCalls = 0
           /\ \A i \in 1 .. Len(wire) : wire[i].req = "create"

C9_Witness ==
    /\ pc = "done"
    /\ createRes.err # Nil
    /\ IsRetryable(createRes.err)
    /\ Len(wire) = MaxN + 1
    /\ ret.err = createRes.err

\* the steps of the path NoSession -> Creating -> Active -> Releasing -> Closed,
\* and the exits of an operation whose session creation did not succeed
SessionPath ==
    {<<"start", "creating">>, <<"creating", "fn">>, <<"fn", "releasing">>,
     <<"releasing", "done">>,
     <<"start", "done">>, <<"creating", "done">>, <<"creating", "panicked">>}

\* create requests, then requests of fn, then disconnect requests
WireOrdered ==
    \A i, j \in 1 .. Len(wire) :
        i < j => /\ wire[j].req = "create" => wire[i].req = "create"
                 /\ wire[i].req = "release" => wire[j].req = "release"

C10_Order ==
    /\ WireOrdered
    /\ fnCalls <= 1
    /\ releaseCalls <= fnCalls
    /\ pc = "fn" => (created /\ fnCalls = 1 /\ releaseCalls = 0)
    /\ pc = "releasing" => (created /\ fnCalls = 1 /\ releaseCalls = 1)
    /\ (pc = "done" /\ created) => (fnCalls = 1 /\ releaseCalls = 1)
    /\ (\E i \in 1 .. Len(wire) : wire[i].req = "op") => created
    /\ Disconnects # {} => pc \in {"releasing", "done"}

C10_Step ==
    /\ pc' # pc => <<pc, pc'>> \in SessionPath
    /\ (pc = "creating" /\ pc' = "fn") => (rpc = "returned" /\ result = Nil)
    /\ (pc = "fn" /\ pc' = "releasing") => rpc = "returned"

\* C10: the session of a logical operation follows the single path NoSession ->
\* Creating -> Active -> Releasing -> Closed: session creation has returned
\* before fn starts, fn is invoked exactly once, the release starts only when
\* fn has returned, and on the wire the session-create requests precede the
\* requests of fn, which precede the disconnect requests.
C10_SessionPath == [](C10_Order) /\ [][C10_Step]_vars

C10_Witness ==
    /\ pc = "done"
    /\ created
    /\ \E i, j, k \in 1 .. Len(wire) :
          /\ i < j /\ j < k
          /\ wire[i].req = "create" /\ wire[j].req = "op" /\ wire[k].req = "release"

----------------------------------------------------------------------------
(* Properties of executeQuery, checked under SpecExec *)

\* C11: whenever the first envelope message of the response has code "0",
\* the attempt yields no error and executeQuery returns no error, whatever the
\* HTTP status of the response, statuses >= 400 included.
C11_CodeZeroIsSuccess ==
    (lastTr.resp /\ lastTr.body = "0")
        => /\ lastOutcome = Nil
           /\ pc = "done" => ret.err = Nil

\* an error of one of the package's types, the context's error, or none
Classified(err) ==
    \/ err = Nil
    \/ err.kind \in {"Validation", "Authentication", "Network", "Timeout", "FileMaker"}
    \/ err.kind \in {"Canceled", "DeadlineExceeded"}

\* C16: every error an attempt of executeQuery hands the retry engine, and
\* every error executeQuery returns, is a ValidationError, AuthenticationError,
\* NetworkError, TimeoutError or FileMakerError, or the context's error; never
\* an error of no type of the package.
C16_OnlyClassifiedErrors ==
    /\ Classified(lastOutcome)
    /\ Classified(lastErr)
    /\ pc = "done" => Classified(ret.err)

\* C12: an attempt of executeQuery that gets no HTTP response hands the retry
\* engine a NetworkError, so it is retried while the budget lasts: with
\* MaxRetries = N and a transport that always fails, N+1 requests are attempted
\* and the error finally returned is a NetworkError.
C12_TransportFailureRetried ==
    (calls > 0 /\ lastTr = TransportFailure /\ ctx = "active")
        => /\ lastOutcome.kind = "Network"
           /\ calls <= rc.MaxRetries => rpc # "returned"
           /\ pc = "done" => (ret.err.kind = "Network" /\ calls = rc.MaxRetries + 1)

\* C17: when the HTTP status is >= 400 and the response carries no envelope
\* message (an empty message list or an empty body), the attempt yields a
\* FileMakerError that carries that HTTP status, so whether it is retried is
\* decided by the status, and executeQuery returns it.
C17_StatusErrorWithoutMessage ==
    (lastTr.resp /\ lastTr.status >= 400 /\ lastTr.body \in {"noMsg", "empty"})
        => /\ lastOutcome.kind = "FileMaker"
           /\ lastOutcome.status = lastTr.status
           /\ lastOutcome.code = ""
           /\ via # "nonRetryable" <=> lastTr.status \in {429, 500, 502, 503, 504}
           /\ (pc = "done" /\ via \in {"nonRetryable", "exhausted"}) => ret.err = lastOutcome

\* C28: executeQuery with an empty base URL or an empty HTTP method, under a
\* live context, returns a ValidationError that names the field (url or
\* method), sends no request to the transport, and makes exactly one attempt.
C28_PreflightValidation ==
    (pc = "done" /\ ctx = "active" /\ (client.url = "" \/ options.Method = ""))
        => /\ ret.err.kind = "Validation"
           /\ ret.err.field = (IF client.url = "" THEN "url" ELSE "method")
           /\ wire = <<>>
           /\ calls = 1

----------------------------------------------------------------------------
(* Properties of the classification functions, checked under SpecClassify *)

\* C13: IsRetryable(err) is true exactly when err is a NetworkError or a
\* TimeoutError, or a FileMakerError whose code is 952 or 953 whatever its HTTP
\* status, or a FileMakerError whose HTTP status is one of 429, 500, 502, 503,
\* 504; it is false for nil, ValidationError, AuthenticationError and errors of
\* no type of the package.
C13_IsRetryable ==
    fout.done
        => /\ fout.retryable <=>
                \/ fin.kind \in {"Network", "Timeout"}
                \/ fin.kind = "FileMaker" /\ fin.code \in {"952", "953"}
                \/ fin.kind = "FileMaker" /\ fin.status \in {429, 500, 502, 503, 504}
           /\ fin.kind \in {"nil", "Validation", "Authentication", "Unclassified"}
                 => ~fout.retryable

C13_Witness ==
    /\ fout.done
    /\ fout.retryable
    /\ fin.kind = "FileMaker"
    /\ fin.code = "953"
    /\ fin.status = 401
    /\ fin.wrapped

C22_HostUnavailableNotAuth ==
    (fout.done /\ fin.kind = "FileMaker" /\ fin.code = "952" /\ fin.status \notin {401, 403})
        => (~fout.auth /\ fout.retryable)

----------------------------------------------------------------------------
(* Properties of calculateBackoff, checked under SpecBackoff *)

\* min(minDelay * 2^attempt, maxDelay), in the integers
ExactBase(cfg, a) == Min(cfg.MinWaitTime * Pow2(a), cfg.MaxWaitTime)

\* C23: with jitter disabled, for every attempt >= 0 the computed backoff
\* equals min(MinWaitTime * 2^attempt, MaxWaitTime) exactly.
C23_ExactBackoff ==
    (rpc = "computed" /\ ~rc.EnableJitter) => backoffTime = ExactBase(rc, attempt)

\* C24: every delay calculateBackoff computes satisfies
\* 0 <= delay <= MaxWaitTime, for every attempt number, with jitter enabled or
\* disabled.
C24_DelayWithinMax ==
    rpc = "computed" => (0 <= backoffTime /\ backoffTime <= rc.MaxWaitTime)

\* C25: with jitter enabled the delay is base + j with 0 <= j < 0.25 * base,
\* where base = min(MinWaitTime * 2^attempt, MaxWaitTime): the delay lies in
\* [base, 1.25 * base).
C25_JitterRange ==
    (rpc = "computed" /\ rc.EnableJitter)
        => /\ ExactBase(rc, attempt) <= backoffTime
           /\ 4 * (backoffTime - ExactBase(rc, attempt)) < ExactBase(rc, attempt)

----------------------------------------------------------------------------
(* Properties of the retry decision, checked under SpecRetry *)

\* C26: in a run with k retries exactly k waits run to their end, the wait
\* that precedes retry i is the delay computed for attempt i-1 (1s, 2s, 4s with
\* the default wait times and jitter off), and no wait follows a success, a
\* non-retryable error or the last allowed attempt.
C26_WaitsBetweenAttempts ==
    /\ Len(waits) = attempt
    /\ \A i \in 1 .. Len(waits) :
          /\ waits[i] \in calculateBackoff(rc, i - 1)
          /\ ~rc.EnableJitter => waits[i] = DefaultMinWaitTime * Pow2(i - 1)
    /\ rpc = "wait" => (IsRetryable(lastOutcome) /\ attempt < rc.MaxRetries)
    /\ (rpc = "returned" /\ calls > 0 /\ ctx = "active") => Len(waits) = calls - 1
    /\ via \in {"success", "nonRetryable", "exhausted"} => Len(waits) = calls - 1

C26_Witness ==
    /\ rpc = "returned"
    /\ ctx = "active"
    /\ ~rc.EnableJitter
    /\ calls = 3
    /\ waits = <<DefaultMinWaitTime, 2 * DefaultMinWaitTime>>

\* C27: OnRetry is called once before each backoff wait, with the attempt
\* numbers 1, 2, ..., k in that order and with the error that caused that
\* retry; it is not called after a success, a non-retryable error or the last
\* allowed attempt, so an operation that always fails with a retryable error
\* triggers exactly MaxRetries calls.
C27_OnRetryCalls ==
    /\ ~rc.OnRetry => retryLog = <<>>
    /\ rc.OnRetry =>
          /\ Len(retryLog) = Len(waits) + (IF rpc = "wait" \/ via = "ctxWait" THEN 1 ELSE 0)
          /\ \A i \in 1 .. Len(retryLog) :
                /\ retryLog[i][1] = i
                /\ retryLog[i][2].seq = i
                /\ IsRetryable(retryLog[i][2])
          /\ rpc = "wait" => retryLog[Len(retryLog)][2] = lastOutcome
          /\ via \in {"success", "nonRetryable", "exhausted"} => Len(retryLog) = calls - 1
          /\ via = "exhausted" => Len(retryLog) = rc.MaxRetries

C27_Witness ==
    /\ rc.OnRetry
    /\ via = "exhausted"
    /\ rc.MaxRetries = MaxN
    /\ Len(retryLog) = MaxN
    /\ retryLog[MaxN][1] = MaxN

\* C14 as stated: when the operation returns an AuthenticationError, or a
\* FileMakerError with HTTP status 401 or 403, or a FileMakerError with code
\* 212 or 214, that invocation is the last one, so a first invocation that
\* fails so is the only one whatever MaxRetries is.
C14_AuthNeverRetried ==
    (calls > 0
       /\ \/ lastOutcome.kind = "Authentication"
          \/ lastOutcome.kind = "FileMaker" /\ lastOutcome.status \in {401, 403}
          \/ lastOutcome.kind = "FileMaker" /\ lastOutcome.code \in {"212", "214"})
        => /\ rpc = "returned"
           /\ result = lastOutcome

\* C14 as amended: when the operation returns an AuthenticationError, or a
\* FileMakerError with HTTP status 401 or 403 whose code is neither 952 nor
\* 953, or a FileMakerError with code 212 or 214 whose HTTP status is none of
\* 429, 500, 502, 503, 504, that invocation is the last one and its error is
\* returned, so a first invocation that fails so is the only one whatever
\* MaxRetries is.
C14_AuthNotRetriedUnlessRetryable ==
    (calls > 0
       /\ \/ lastOutcome.kind = "Authentication"
          \/ /\ lastOutcome.kind = "FileMaker"
             /\ lastOutcome.status \in {401, 403}
             /\ lastOutcome.code \notin {"952", "953"}
          \/ /\ lastOutcome.kind = "FileMaker"
             /\ lastOutcome.code \in {"212", "214"}
             /\ lastOutcome.status \notin {429, 500, 502, 503, 504})
        => /\ rpc = "returned"
           /\ result = lastOutcome
           /\ via = "nonRetryable"
           /\ calls = 1 => (waits = <<>> /\ retryLog = <<>>)

C14_Witness ==
    /\ rpc = "returned"
    /\ calls = 1
    /\ rc.MaxRetries = MaxN
    /\ lastOutcome.kind = "FileMaker"
    /\ lastOutcome.code = "214"
    /\ lastOutcome.status = 403
    /\ result = lastOutcome

\* C15: a FileMakerError that carries neither code 952 nor code 953 is treated
\* as retryable by executeWithRetry if and only if its HTTP status is a member
\* of rc.RetryableStatusCodes, so changing that list changes which statuses
\* are retried.
C15_StatusSetDecides ==
    (calls > 0 /\ lastOutcome.kind = "FileMaker" /\ lastOutcome.code \notin {"952", "953"})
        => (via # "nonRetryable" <=> lastOutcome.status \in rc.RetryableStatusCodes)

----------------------------------------------------------------------------
(* Properties of CreateSession, checked under SpecAuth *)

\* C18: CreateSession uses one provider per call.  With more than one explicit
\* provider, or with none and no default on the client, it returns a
\* ValidationError for "auth" and no request is sent; otherwise the request it
\* sends is the one of the explicit provider when one is given and of the
\* client's default when none is.
C18_OneStrategy ==
    /\ (Len(authArgs) > 1 \/ (authArgs = <<>> /\ client.authProvider = "none"))
          => /\ pc \in {"auth", "done"}
             /\ wire = <<>>
             /\ calls = 0
             /\ pc = "done" => ret = [data |-> NilData, err |-> ValidationError("auth", 0)]
    /\ (Len(authArgs) = 1 /\ authArgs[1] # NilProvider /\ pc # "auth")
          => /\ options = CallProvider(authArgs[1], client)
             /\ \A i \in 1 .. Len(wire) : wire[i] = Request(CallProvider(authArgs[1], client))
    /\ (authArgs = <<>> /\ client.authProvider # "none" /\ pc # "auth")
          => /\ options = CallProvider(DefaultProvider(client), client)
             /\ \A i \in 1 .. Len(wire) :
                   wire[i] = Request(CallProvider(DefaultProvider(client), client))

C18_Witness ==
    /\ pc = "done"
    /\ Len(authArgs) = 1
    /\ authArgs[1] = WithOAuth("rid2", "ident2")
    /\ client.authProvider = "basic"
    /\ Len(wire) = 1
    /\ wire[1].basic = <<>>
    /\ <<"X-FM-Data-OAuth-Request-Id", "rid2">> \in wire[1].headers

\* a required input of provider p is absent: an empty username or password for
\* Basic, no stored pair on the client for the custom datasource, an empty
\* request id or identifier for OAuth, an empty token for FMID
MissingInputs(p, c) ==
    \/ p.kind = "basic" /\ (p.a = "" \/ p.b = "")
    \/ p.kind = "custom" /\ (c.username = "" \/ c.password = "")
    \/ p.kind = "oauth" /\ (p.a = "" \/ p.b = "")
    \/ p.kind = "fmid" /\ p.a = ""

\* C19: when a required input of the provider CreateSession uses is absent,
\* CreateSession returns a ValidationError and no session-create request is
\* sent.
C19_MissingInputsRejected ==
    (Len(authArgs) <= 1
       /\ SelectProvider(client, authArgs) # NilProvider
       /\ MissingInputs(SelectProvider(client, authArgs), client))
        => /\ wire = <<>>
           /\ pc \in {"auth", "done"}
           /\ pc = "done" => ret.err.kind = "Validation"

\* C20: the session-create request of WithCustomDatasource carries the pair
\* stored on the client as its HTTP Basic pair and the pair passed to
\* WithCustomDatasource in its fmDataSource body; when the two pairs differ
\* the passed pair is not the Basic pair and the stored pair is not in the
\* body.
C20_DatasourcePairs ==
    (Len(authArgs) = 1 /\ authArgs[1].kind = "custom")
        => \A i \in 1 .. Len(wire) :
              /\ wire[i].basic = <<client.username, client.password>>
              /\ wire[i].body = <<authArgs[1].a, authArgs[1].b>>
              /\ <<authArgs[1].a, authArgs[1].b>> # <<client.username, client.password>>
                    => /\ wire[i].basic # <<authArgs[1].a, authArgs[1].b>>
                       /\ wire[i].body # <<client.username, client.password>>

C20_Witness ==
    /\ pc = "done"
    /\ authArgs = <<WithCustomDatasource("ext", "extPass")>>
    /\ client.username = "master"
    /\ Len(wire) = 1
    /\ wire[1].basic = <<"master", "masterPass">>
    /\ wire[1].body = <<"ext", "extPass">>

----------------------------------------------------------------------------
(* Properties of the endpoint and builder calls, checked under SpecValidate *)

\* an argument the call needs is empty
EmptyArguments(call) == {f \in Parameters(call.endpoint) : call[f] = ""}

\* C29: a call with an empty required argument returns a ValidationError
\* naming an empty argument at once: no request reaches the transport, no
\* session is created and executeWithRetry invokes nothing.
C29_EmptyArgumentRejected ==
    (pc # "call" /\ EmptyArguments(args) # {})
        => /\ pc = "done"
           /\ ret.err.kind = "Validation"
           /\ ret.err.field \in EmptyArguments(args)
           /\ wire = <<>>
           /\ ~created
           /\ issued = 0
           /\ calls = 0

----------------------------------------------------------------------------
(* Properties of operations sharing one client, checked under SpecShared *)

\* the requests of kind req that operation o has sent
RequestsOf(o, req) == {i \in 1 .. Len(wire) : wire[i].op = o /\ wire[i].req = req}

\* C30: operations sharing one client are independent.  Every operation past
\* its start has sent exactly one session-create request of its own, before
\* its other requests; the token on its request and in its release is the one
\* its own session creation returned, and never one the server issued to
\* another operation.
C30_OwnSession ==
    /\ \A o \in Operations :
          ops[o].pc # "start" => Cardinality(RequestsOf(o, "create")) = 1
    /\ \A i \in 1 .. Len(wire) :
          wire[i].req # "create"
              => /\ \E j \in 1 .. (i - 1) :
                       wire[j] = [op |-> wire[i].op, req |-> "create", tok |-> 0]
                 /\ wire[i].tok = ops[wire[i].op].token
                 /\ \A o \in Operations \ {wire[i].op} : wire[i].tok \notin ops[o].sessions

\* two operations ran interleaved, each with a session of its own, and both
\* have sent their request and released their session
C30_Witness ==
    /\ Len(wire) >= 6
    /\ wire[1].req = "create"
    /\ wire[2].req = "create"
    /\ wire[1].op # wire[2].op
    /\ \A o \in {wire[1].op, wire[2].op} :
          /\ ops[o].pc = "done"
          /\ ops[o].token # 0
          /\ RequestsOf(o, "op") # {}
          /\ RequestsOf(o, "release") # {}

----------------------------------------------------------------------------
(* Properties of the configuration reads, checked under SpecLock *)

\* C31: every read of the client's configuration made while executing an
\* operation holds the client's read lock.
C31_ReadsHoldLock ==
    \A o \in Operations : ops[o].bare = {}

----------------------------------------------------------------------------
(* Further properties of executeQuery, checked under SpecExec *)

\* C37: when executeQuery returns an error together with an envelope, the
\* envelope was parsed from the response of the attempt that produced the
\* error: the last attempt got a response, the error is that attempt's, and
\* the envelope is what parseResponse made of that response.
C37_EnvelopeOfLastAttempt ==
    (pc = "done" /\ ret.err # Nil /\ ret.data.set)
        => /\ lastTr.resp
           /\ via \in {"nonRetryable", "exhausted"}
           /\ ret.data = parseResponse(lastTr, AnswerToken(eq, lastTr), calls).data

----------------------------------------------------------------------------
(* Frame and release properties of the logical operation, checked under Spec *)

\* C32: no step of a logical operation (session creation, the request, the
\* release, the retry loop around each), whatever its outcome, changes the
\* client's url, credentials, default provider or retry policy.
C32_ClientUnchanged == [][client' = client /\ rc' = rc]_vars

\* an operation has run to its end with all three requests sent, one has
\* failed, and the client still has what SetBasicAuth gave it
C32_Witness ==
    /\ pc = "done"
    /\ Len(wire) >= 3
    /\ fnRes.err # Nil
    /\ client.authProvider = "basic"
    /\ client.username = "master"

\* C33: when the context is already cancelled or expired as the release
\* begins, the release makes no attempt: no disconnect request is sent and no
\* backoff wait is run, and the operation returns what fn returned.
C33_ReleaseDoesNotBlock ==
    (releaseCalls = 1 /\ pc \in {"releasing", "done"} /\ ctxAtEntry # "active")
        => /\ Disconnects = {}
           /\ calls = 0
           /\ waits = <<>>
           /\ rpc # "waiting"
           /\ pc = "done" => ret = fnRes

\* fn ran on a live context, which ended before the release began
C33_Witness ==
    /\ pc = "done"
    /\ releaseCalls = 1
    /\ ctxAtEntry # "active"
    /\ \E i \in 1 .. Len(wire) : wire[i].req = "op"
    /\ via = "ctxCheck"
    /\ ret = fnRes

\* C35: the release sends at most one disconnect request per logical
\* operation and runs no backoff wait before the caller gets fn's result, even
\* when the disconnect fails with a retryable error.
C35_OneDisconnect ==
    (releaseCalls = 1 /\ pc \in {"releasing", "done"})
        => /\ Cardinality(Disconnects) <= 1
           /\ waits = <<>>
           /\ rpc # "waiting"

\* C36: when the logical operation returns, every session the server opened
\* in answer to its session-create requests, those of retried attempts
\* included, has been the subject of a disconnect request.
C36_NoOrphanSession ==
    pc = "done"
        => /\ ~lost
           /\ \A t \in 1 .. issued : \E i \in Disconnects : wire[i].tok = t

\* C39: the record-modifying request of a logical operation (the POST of
\* Create) reaches the server at most once: it is never sent again after an
\* answer that leaves open whether the server applied it.
C39_AppliedAtMostOnce ==
    Cardinality({i \in 1 .. Len(wire) : wire[i].req = "op"}) <= 1

----------------------------------------------------------------------------
(* Further properties of executeWithRetry, checked under SpecRetry *)

\* C34: executeWithRetry returns nil only if fn was invoked and its last
\* invocation returned nil; a call whose context is not cancelled has invoked
\* fn at least once when it returns, for every MaxRetries SetMaxRetries accepts.
C34_SuccessMeansInvoked ==
    rpc = "returned"
        => /\ result = Nil => (calls >= 1 /\ lastOutcome = Nil)
           /\ ctx = "active" => calls >= 1

\* C38: every call of executeWithRetry returns, whatever errors fn produces,
\* after at most MaxRetries + 1 invocations of fn and at most MaxRetries waits
\* (none when MaxRetries is not positive).
C38_Terminates ==
    /\ <>(rpc = "returned")
    /\ [](/\ calls <= rc.MaxRetries + 1
          /\ Len(waits) <= IF rc.MaxRetries > 0 THEN rc.MaxRetries ELSE 0
          /\ rpc = "waiting" => Len(waits) < rc.MaxRetries)

\* a call that used its whole budget: every attempt failed with a retryable
\* error and every wait ran to its end
C38_Witness ==
    /\ rpc = "returned"
    /\ rc.MaxRetries = MaxN
    /\ calls = rc.MaxRetries + 1
    /\ Len(waits) = rc.MaxRetries
    /\ via = "exhausted"

----------------------------------------------------------------------------
(* Properties of the container upload, checked under SpecUpload *)

\* C40: every retry attempt transmits the same complete request as the first
\* attempt: same method, token and full multipart body.
C40_SameRequestEveryAttempt ==
    \A i \in 1 .. Len(wire) :
        /\ wire[i] = wire[1]
        /\ wire[i].body = MultipartBody

====
